---------------------------- MODULE Spec2Model ----------------------------
(***************************************************************************)
(* InkBot (src/inkbot.py): a bot that watches a comment feed, extracts     *)
(* [[...]] tokens, matches each token against the ink rules, replies once  *)
(* per comment and records the reply in a shelve file (self.PostList).     *)
(* Failures are handled by ___handle_exception, which closes the shelf,    *)
(* sleeps and re-enters start() recursively.                               *)
(*                                                                         *)
(* Strings are sequences of one-character strings.  A falsy Python value   *)
(* (None or "") of a field is the empty sequence.                          *)
(***************************************************************************)
EXTENDS Integers, Sequences, FiniteSets, TLC

\* ------------------------------------------------------------------------
\* Bounds of the model (not program constants)
\* ------------------------------------------------------------------------

\* at most this many successful comment.reply calls in one behaviour
MaxReplies == 3

\* at most this many start() invocations are ever suspended at once
MaxDepth == 2

\* ------------------------------------------------------------------------
\* Text: bodies, tokens, patterns
\* ------------------------------------------------------------------------

\* An optional value is a sequence of length at most one: None is << >>.
None == << >>

Some(x) == <<x>>

\* str.lower on the characters the model uses (re.IGNORECASE, line 178)
Lower(ch) ==
    CASE ch = "I" -> "i"
      [] ch = "B" -> "b"
      [] OTHER -> ch

\* text.replace("\\", ""), line 260
RECURSIVE StripBackslashes(_)
StripBackslashes(text) ==
    IF text = << >> THEN << >>
    ELSE IF Head(text) = "\\" THEN StripBackslashes(Tail(text))
    ELSE <<Head(text)>> \o StripBackslashes(Tail(text))

\* the lazy .*? followed by \]\]: the first j >= from with text[j..j+1] = "]]"
\* and no newline before it ('.' does not match a newline); 0 when none
RECURSIVE ClosePos(_, _)
ClosePos(text, j) ==
    IF j + 1 > Len(text) THEN 0
    ELSE IF text[j] = "]" /\ text[j + 1] = "]" THEN j
    ELSE IF text[j] = "\n" THEN 0
    ELSE ClosePos(text, j + 1)

\* re.findall(r"\[\[.*?\]\]", text), line 262: non-overlapping matches, left
\* to right
RECURSIVE FindAllFrom(_, _)
FindAllFrom(text, i) ==
    IF i + 3 > Len(text) THEN << >>
    ELSE IF text[i] = "[" /\ text[i + 1] = "["
         THEN LET j == ClosePos(text, i + 2)
              IN  IF j = 0 THEN FindAllFrom(text, i + 1)
                  ELSE <<SubSeq(text, i, j + 1)>> \o FindAllFrom(text, j + 2)
         ELSE FindAllFrom(text, i + 1)

FindAll(text) == FindAllFrom(text, 1)

\* A compiled pattern is a literal, matched case-insensitively.
\* ink_regex.search(token), line 71: the leftmost occurrence, as the matched
\* substring match.group(0) (as Some(...)); None when the pattern occurs nowhere in token.
RECURSIVE SearchFrom(_, _, _)
SearchFrom(pattern, token, i) ==
    IF i + Len(pattern) - 1 > Len(token) THEN None
    ELSE IF \A k \in 1..Len(pattern) :
                Lower(token[i + k - 1]) = Lower(pattern[k])
         THEN Some(SubSeq(token, i, i + Len(pattern) - 1))
         ELSE SearchFrom(pattern, token, i + 1)

Search(pattern, token) == SearchFrom(pattern, token, 1)

\* ------------------------------------------------------------------------
\* find_best_match, lines 43-82
\* ------------------------------------------------------------------------

\* lines 65-73: the (match, ink) pairs of the inks whose pattern is found in
\* token, in inklist order; an ink without compiled_re is skipped
RECURSIVE CandidateMatches(_, _)
CandidateMatches(inklist, token) ==
    IF inklist = << >> THEN << >>
    ELSE LET ink == Head(inklist)
             ink_regex == ink.compiled_re
             rest == CandidateMatches(Tail(inklist), token)
         IN  IF ink_regex = None THEN rest
             ELSE LET match == Search(ink_regex[1], token)
                  IN  IF match # None
                      THEN <<[match |-> match[1], ink |-> ink]>> \o rest
                      ELSE rest

\* a threshold that admits a match of 5 characters
MinSubstrInclusive == 5 - 1

\* line 76: longest_substr = 5
MinSubstr == 5

\* a comparison that lets a later ink of equal length replace the best one
IsLongerOrEqual(substr_len, longest_substr) == substr_len >= longest_substr

\* line 79: substr_len > longest_substr
IsLonger(substr_len, longest_substr) == substr_len > longest_substr

\* lines 77-81: the loop over candidate_matches, carrying (longest_substr,
\* best_match)
RECURSIVE BestOf(_, _, _)
BestOf(candidate_matches, longest_substr, best_match) ==
    IF candidate_matches = << >> THEN best_match
    ELSE LET substr_len == Len(Head(candidate_matches).match)
         IN  IF IsLonger(substr_len, longest_substr)
             THEN BestOf(Tail(candidate_matches), substr_len,
                         Some(Head(candidate_matches).ink))
             ELSE BestOf(Tail(candidate_matches), longest_substr, best_match)

\* lines 43-82: Some(ink) or None
find_best_match(inklist, token) ==
    BestOf(CandidateMatches(inklist, token), MinSubstr, None)

\* ------------------------------------------------------------------------
\* format_comment, lines 84-119
\* ------------------------------------------------------------------------

\* lines 107-111: the ink's URL; scanned_page[0] raises IndexError on an
\* empty list
UrlRaises(ink) ==
    ink.fields.ScannedPage # None /\ ink.fields.ScannedPage[1] = << >>

ink_url_of(ink) ==
    IF ink.fields.ScannedPage = None THEN ink.fields.ImgurAddress
    ELSE ink.fields.ScannedPage[1][1].url

\* line 116: f"* [{ink_name}]({ink_url})\n"
Row(ink_name, ink_url) ==
    <<"*", " ", "[">> \o ink_name \o <<"]", "(">> \o ink_url \o <<")", "\n">>

\* a body that lists the inks last to first
RECURSIVE format_body_reversed(_)
format_body_reversed(ink_matches) ==
    IF ink_matches = << >> THEN << >>
    ELSE LET ink == Head(ink_matches)
             rest == format_body_reversed(Tail(ink_matches))
         IN  IF ink = None THEN rest
             ELSE LET ink_name == ink[1].fields.InkName
                      ink_url == ink_url_of(ink[1])
                  IN  IF ~(ink_name # << >> /\ ink_url # << >>) THEN rest
                      ELSE rest \o Row(ink_name, ink_url)

\* lines 101-119 when no entry raises: the reply body
RECURSIVE format_body(_)
format_body(ink_matches) ==
    IF ink_matches = << >> THEN << >>
    ELSE LET ink == Head(ink_matches)
             rest == format_body(Tail(ink_matches))
         IN  IF ink = None THEN rest
             ELSE LET ink_name == ink[1].fields.InkName
                      ink_url == ink_url_of(ink[1])
                  IN  IF ~(ink_name # << >> /\ ink_url # << >>) THEN rest
                      ELSE Row(ink_name, ink_url) \o rest

\* line 111 raises on the first matched ink with an empty Scanned Page list
format_raises(ink_matches) ==
    \E i \in 1..Len(ink_matches) :
        ink_matches[i] # None /\ UrlRaises(ink_matches[i][1])

\* format_comment(ink_matches): the body, or the exception it raises
format_comment(ink_matches) ==
    IF format_raises(ink_matches)
    THEN [raised |-> TRUE, reply_body |-> << >>]
    ELSE [raised |-> FALSE, reply_body |-> format_body(ink_matches)]

\* ------------------------------------------------------------------------
\* The world: the comments of the feed and the tables Airtable may return
\* ------------------------------------------------------------------------

Comments == {"c1", "c2", "c3"}

\* c.body: c1 is written with the "fancypants" editor (escaped brackets),
\* c2 has a short token, c3 has no token
body(c) ==
    CASE c = "c1" -> <<"\\", "[", "\\", "[", "I", "n", "k", "B", "l", "u", "e",
                       "\\", "]", "\\", "]">>
      [] c = "c2" -> <<"[", "[", "i", "n", "k", "]", "]">>
      [] OTHER -> <<"i", "n", "k">>

\* Airtable's record ids
RecId(i) == <<"rec", i>>

\* a row of the table, with its RegEx compiled (line 178)
Ink(id, name, regex, imgur, scanned) ==
    [id |-> id,
     fields |-> [InkName |-> name, ImgurAddress |-> imgur,
                 ScannedPage |-> scanned],
     compiled_re |-> Some(regex)]

\* the tables download_airtable can return, each ink with its RegEx compiled
\* (lines 174-178)
InkLists ==
    { << Ink(RecId(1), <<"B", "l", "u", "e">>, <<"i", "n", "k", "b", "l", "u">>,
             <<"u", "1">>, None),
         Ink(RecId(2), <<"I", "n", "k">>, <<"i", "n", "k">>, <<"u", "2">>, None) >>,
      << Ink(RecId(3), <<"O", "l", "d">>, <<"[", "[", "i", "n", "k">>,
             <<"u", "3">>, None),
         Ink(RecId(4), <<"I", "n", "k">>, <<"[", "[", "i", "n", "k", "]", "]">>,
             << >>, Some(<<[url |-> <<"u", "4">>]>>)) >>,
      << Ink(RecId(5), <<"B", "l", "u", "e">>,
             <<"i", "n", "k", "b", "l", "u", "e">>, << >>, Some(<< >>)) >> }

\* ------------------------------------------------------------------------
\* State
\* ------------------------------------------------------------------------

VARIABLES
    pc,        \* where the innermost (running) start() is
    stack,     \* the suspended start() invocations, outermost first: for each,
               \* the place that called ___handle_exception
    hsite,     \* the place that called the running ___handle_exception
    exc,       \* the exception being handled or propagating
    r,         \* self.r: logged in or not
    inklist,   \* self.inklist
    PostList,  \* self.PostList: the shelf handle, [state, dict]
    handles,   \* number of shelf handles that are open
    db,        \* the content of inkbot_list.db on disk
    comment,   \* the comment the loop is processing
    output,    \* __reply_to's argument
    retries,   \* __reply_to's local
    reply,     \* __reply_to's local: None while unbound
    replies,   \* history: the <<comment id, reply id>> of every successful
               \* comment.reply
    calls,     \* history: comment.reply calls of the current __reply_to
    sleeps,    \* history: retry sleeps of the current __reply_to
    work,      \* history: what the last __comment_action did
    lost,      \* history: comments whose reply succeeded and whose record
               \* then failed or was interrupted
    token,     \* find_best_match on its own: its argument
    best_match, \* find_best_match on its own: its result
    fc_ink_matches, \* format_comment on its own: its argument
    fc_comment_body \* format_comment on its own: what it returns or raises

vars == <<pc, stack, hsite, exc, r, inklist, PostList, handles, db, comment,
          output, retries, reply, replies, calls, sleeps, work, lost, token,
          best_match, fc_ink_matches, fc_comment_body>>

matchvars == <<token, best_match, fc_ink_matches, fc_comment_body>>

\* format_comment not called yet
NoBody == [raised |-> FALSE, reply_body |-> << >>]

EmptyDict == [k \in {} |-> 0]

\* line 227: retries = 20
Retries == 20

Interrupts == {"KeyboardInterrupt"}

Init ==
    /\ pc = "login"
    /\ stack = << >>
    /\ hsite = "none"
    /\ exc = "none"
    /\ r = FALSE
    /\ inklist = << >>
    /\ PostList = [state |-> "unset", dict |-> EmptyDict]
    /\ handles = 0
    /\ db = EmptyDict
    /\ comment = "none"
    /\ output = << >>
    /\ retries = 0
    /\ reply = None
    /\ replies = {}
    /\ calls = 0
    /\ sleeps = 0
    /\ work = "none"
    /\ lost = {}
    /\ token = << >>
    /\ best_match = None
    /\ fc_ink_matches = << >>
    /\ fc_comment_body = NoBody

\* number of successful replies to comment c so far
posts(c) == Cardinality({p \in replies : p[1] = c})

\* ------------------------------------------------------------------------
\* The shelf
\* ------------------------------------------------------------------------

\* Shelf.__setitem__
Put(dict, k, v) == [x \in (DOMAIN dict) \cup {k} |-> IF x = k THEN v ELSE dict[x]]

\* Shelf.close(): sync, then the handle is closed; a no-op on a closed shelf
Closed(shelf) == [state |-> "closed", dict |-> shelf.dict]

\* what PostList.close() leaves on disk
ClosedDb(shelf, disk) == IF shelf.state = "open" THEN shelf.dict ELSE disk

ClosedHandles(shelf, n) == IF shelf.state = "open" THEN n - 1 ELSE n

\* ------------------------------------------------------------------------
\* Exceptions
\* ------------------------------------------------------------------------

\* where an exception leaving ___handle_exception goes: out of __reply_to
\* (lines 240-244) it is inside the try of __inkbot_loop; out of __login
\* (line 204) or of __inkbot_loop's handler (line 286) it leaves start()
PropagateTo(site) == IF site = "reply" THEN "except" ELSE "raise"

\* ------------------------------------------------------------------------
\* start(), lines 166-191
\* ------------------------------------------------------------------------

\* __login succeeds (lines 195-202)
login ==
    /\ pc = "login"
    /\ r' = TRUE
    /\ pc' = "download"
    /\ UNCHANGED <<stack, hsite, exc, inklist, PostList, handles, db, comment,
                   output, retries, reply, replies, calls, sleeps, work, lost>>
    /\ UNCHANGED matchvars

\* __login fails: except Exception -> self.___handle_exception(e) (203-204)
login_fail ==
    /\ pc = "login"
    /\ exc' = "LoginError"
    /\ hsite' = "login"
    /\ pc' = "close"
    /\ UNCHANGED <<stack, r, inklist, PostList, handles, db, comment, output,
                   retries, reply, replies, calls, sleeps, work, lost>>
    /\ UNCHANGED matchvars

\* download_airtable and the compile loop succeed (lines 174-178)
download_airtable ==
    /\ pc = "download"
    /\ \E l \in InkLists : inklist' = l
    /\ pc' = "open"
    /\ UNCHANGED <<stack, hsite, exc, r, PostList, handles, db, comment, output,
                   retries, reply, replies, calls, sleeps, work, lost>>
    /\ UNCHANGED matchvars

\* download_airtable or re.compile raises: nothing in start() catches it
download_fail ==
    /\ pc = "download"
    /\ exc' = "LoadError"
    /\ pc' = "raise"
    /\ UNCHANGED <<stack, hsite, r, inklist, PostList, handles, db, comment,
                   output, retries, reply, replies, calls, sleeps, work, lost>>
    /\ UNCHANGED matchvars

\* self.PostList = shelve.open(...) (lines 183-184), then __inkbot_loop
shelve_open ==
    /\ pc = "open"
    /\ PostList' = [state |-> "open", dict |-> db]
    /\ handles' = handles + 1
    /\ pc' = "stream"
    /\ UNCHANGED <<stack, hsite, exc, r, inklist, db, comment, output, retries,
                   reply, replies, calls, sleeps, work, lost>>
    /\ UNCHANGED matchvars

\* ------------------------------------------------------------------------
\* __inkbot_loop, lines 275-286, and __comment_action, lines 249-271
\* ------------------------------------------------------------------------

\* the stream yields a comment (line 278): any comment, any number of times
stream_next ==
    /\ pc = "stream"
    /\ \E c \in Comments : comment' = c
    /\ pc' = "comment_action"
    /\ UNCHANGED <<stack, hsite, exc, r, inklist, PostList, handles, db, output,
                   retries, reply, replies, calls, sleeps, work, lost>>
    /\ UNCHANGED matchvars

\* the stream raises (line 278)
stream_fail ==
    /\ pc = "stream"
    /\ exc' = "FeedError"
    /\ pc' = "except"
    /\ UNCHANGED <<stack, hsite, r, inklist, PostList, handles, db, comment,
                   output, retries, reply, replies, calls, sleeps, work, lost>>
    /\ UNCHANGED matchvars

\* a dedupe check that never finds the comment
NeverReplied(sid, shelf) == FALSE

\* line 254: sid in self.PostList
AlreadyReplied(sid, shelf) == sid \in DOMAIN shelf.dict

\* line 263: not match_list
NoTokens(match_list) == match_list = << >>

\* a reply decision that ignores the body
AlwaysReply(comment_body) == TRUE

\* line 270: if comment_body
ShouldReply(comment_body) == comment_body # << >>

\* line 262
match_list_of(c) == FindAll(StripBackslashes(body(c)))

\* line 267
ink_matches_of(inks, match_list) ==
    [i \in 1..Len(match_list) |-> find_best_match(inks, match_list[i])]

\* __comment_action (lines 249-271) up to the first comment.reply: the
\* entry of __reply_to (line 227) is part of it
comment_action ==
    /\ pc = "comment_action"
    /\ LET sid == comment
           match_list == match_list_of(comment)
           fc == format_comment(ink_matches_of(inklist, match_list))
       IN  IF AlreadyReplied(sid, PostList)
           THEN /\ work' = "replied"
                /\ pc' = "stream"
                /\ UNCHANGED <<exc, output, retries, reply, calls, sleeps>>
           ELSE IF NoTokens(match_list)
           THEN /\ work' = "no_tokens"
                /\ pc' = "stream"
                /\ UNCHANGED <<exc, output, retries, reply, calls, sleeps>>
           ELSE IF fc.raised
           THEN /\ work' = "raised"
                /\ exc' = "IndexError"
                /\ pc' = "except"
                /\ UNCHANGED <<output, retries, reply, calls, sleeps>>
           ELSE IF ShouldReply(fc.reply_body)
           THEN /\ work' = "reply_to"
                /\ output' = fc.reply_body
                /\ retries' = Retries
                /\ reply' = None
                /\ calls' = 0
                /\ sleeps' = 0
                /\ pc' = "reply"
                /\ UNCHANGED exc
           ELSE /\ work' = "empty_body"
                /\ pc' = "stream"
                /\ UNCHANGED <<exc, output, retries, reply, calls, sleeps>>
    /\ UNCHANGED <<stack, hsite, r, inklist, PostList, handles, db, comment,
                   replies, lost>>
    /\ UNCHANGED matchvars

\* ------------------------------------------------------------------------
\* __reply_to, lines 221-246
\* ------------------------------------------------------------------------

\* line 228: while retries > 1
LoopContinues(n) == n > 1

\* line 237: if retries < 1
OutOfRetries(n) == n < 1

\* comment.reply(output) succeeds (lines 230-231)
reply_ok ==
    /\ pc = "reply"
    /\ Cardinality(replies) < MaxReplies
    /\ LET id == Cardinality(replies) + 1
       IN  /\ reply' = Some(id)
           /\ replies' = replies \cup {<<comment, id>>}
    /\ calls' = calls + 1
    /\ pc' = "record"
    /\ UNCHANGED <<stack, hsite, exc, r, inklist, PostList, handles, db,
                   comment, output, retries, sleeps, work, lost>>
    /\ UNCHANGED matchvars

\* a transient failure retried at once, without the sleep of line 236
reply_APIException_nosleep ==
    /\ pc = "reply"
    /\ calls' = calls + 1
    /\ exc' = "APIException"
    /\ retries' = retries - 1
    /\ pc' = IF retries - 1 > 1 THEN "reply" ELSE "sleep"
    /\ UNCHANGED <<stack, hsite, r, inklist, PostList, handles, db, comment,
                   output, reply, replies, sleeps, work, lost>>
    /\ UNCHANGED matchvars

\* comment.reply raises APIException (lines 232-235)
reply_APIException ==
    /\ pc = "reply"
    /\ calls' = calls + 1
    /\ exc' = "APIException"
    /\ retries' = retries - 1
    /\ pc' = "sleep"
    /\ UNCHANGED <<stack, hsite, r, inklist, PostList, handles, db, comment,
                   output, reply, replies, sleeps, work, lost>>
    /\ UNCHANGED matchvars

\* time.sleep(self.wait_time) in the APIException handler, the test of line
\* 237 and the loop test of line 228; when the loop ends without a break,
\* line 245 reads the unbound local `reply`
retry_sleep ==
    /\ pc = "sleep"
    /\ sleeps' = sleeps + 1
    /\ IF OutOfRetries(retries)
       THEN /\ hsite' = "reply"
            /\ pc' = "close"
            /\ UNCHANGED exc
       ELSE IF LoopContinues(retries)
       THEN /\ pc' = "reply"
            /\ exc' = "none"
            /\ UNCHANGED hsite
       ELSE IF reply = None
       THEN /\ exc' = "UnboundLocalError"
            /\ pc' = "except"
            /\ UNCHANGED hsite
       ELSE /\ pc' = "record"
            /\ exc' = "none"
            /\ UNCHANGED hsite
    /\ UNCHANGED <<stack, r, inklist, PostList, handles, db, comment, output,
                   retries, reply, replies, calls, work, lost>>
    /\ UNCHANGED matchvars

\* a non-transient failure handled like a transient one
reply_Exception_retried ==
    /\ pc = "reply"
    /\ calls' = calls + 1
    /\ exc' = "Exception"
    /\ retries' = retries - 1
    /\ pc' = "sleep"
    /\ UNCHANGED <<stack, hsite, r, inklist, PostList, handles, db, comment,
                   output, reply, replies, sleeps, work, lost>>
    /\ UNCHANGED matchvars

\* comment.reply raises anything else (lines 240-244)
reply_Exception ==
    /\ pc = "reply"
    /\ calls' = calls + 1
    /\ exc' = "Exception"
    /\ hsite' = "reply"
    /\ pc' = "close"
    /\ UNCHANGED <<stack, r, inklist, PostList, handles, db, comment, output,
                   retries, reply, replies, sleeps, work, lost>>
    /\ UNCHANGED matchvars

\* a record that holds another id than the one comment.reply returned
RecordedOther(dict, sid, rid) == Put(dict, sid, rid + 1)

\* line 245: self.PostList[str(comment.id)] = str(reply.id)
Recorded(dict, sid, rid) == Put(dict, sid, rid)

\* a sync that writes nothing
NotSynced(dict, disk) == disk

\* line 246: self.PostList.sync() writes the shelf to disk
Synced(dict, disk) == dict

\* lines 245-246 succeed; __reply_to and __comment_action return
record ==
    /\ pc = "record"
    /\ LET d == Recorded(PostList.dict, comment, reply[1])
       IN  /\ PostList' = [PostList EXCEPT !.dict = d]
           /\ db' = Synced(d, db)
    /\ pc' = "stream"
    /\ UNCHANGED <<stack, hsite, exc, r, inklist, handles, comment, output,
                   retries, reply, replies, calls, sleeps, work, lost>>
    /\ UNCHANGED matchvars

\* the shelf raises: in the assignment of line 245 (nothing is stored), or
\* in the sync of line 246 (the entry is in the shelf, not yet on disk)
record_fail ==
    /\ pc = "record"
    /\ \E assigned \in BOOLEAN :
          PostList' = IF assigned
                      THEN [PostList EXCEPT
                               !.dict = Recorded(PostList.dict, comment, reply[1])]
                      ELSE PostList
    /\ exc' = "StoreError"
    /\ lost' = lost \cup {comment}
    /\ pc' = "except"
    /\ UNCHANGED <<stack, hsite, r, inklist, handles, db, comment, output,
                   retries, reply, replies, calls, sleeps, work>>
    /\ UNCHANGED matchvars

\* ------------------------------------------------------------------------
\* the handlers of __inkbot_loop (lines 280-286), ___handle_exception
\* (lines 209-216) and the propagation of what they do not catch
\* ------------------------------------------------------------------------

\* a loop that closes the shelf and re-raises whatever reaches it
loop_except_reraise ==
    /\ pc = "except"
    /\ PostList' = Closed(PostList)
    /\ db' = ClosedDb(PostList, db)
    /\ handles' = ClosedHandles(PostList, handles)
    /\ pc' = "raise"
    /\ UNCHANGED <<stack, hsite, exc, r, inklist, comment, output, retries,
                   reply, replies, calls, sleeps, work, lost>>
    /\ UNCHANGED matchvars

\* a loop whose only handler is "except Exception", catching interrupts too
loop_except_restarts ==
    /\ pc = "except"
    /\ hsite' = "loop"
    /\ pc' = "close"
    /\ UNCHANGED <<PostList, db, handles>>
    /\ UNCHANGED <<stack, exc, r, inklist, comment, output, retries, reply,
                   replies, calls, sleeps, work, lost>>
    /\ UNCHANGED matchvars

\* a loop that re-raises an interrupt without closing the shelf
loop_except_noclose ==
    /\ pc = "except"
    /\ IF exc \in Interrupts
       THEN /\ pc' = "raise"
            /\ UNCHANGED hsite
       ELSE /\ hsite' = "loop"
            /\ pc' = "close"
    /\ UNCHANGED <<PostList, db, handles>>
    /\ UNCHANGED <<stack, exc, r, inklist, comment, output, retries, reply,
                   replies, calls, sleeps, work, lost>>
    /\ UNCHANGED matchvars

\* an exception reaches the try of __inkbot_loop: KeyboardInterrupt and
\* SystemExit close the shelf and re-raise (280-284), any other Exception
\* goes to ___handle_exception (285-286)
loop_except ==
    /\ pc = "except"
    /\ IF exc \in Interrupts
       THEN /\ PostList' = Closed(PostList)
            /\ db' = ClosedDb(PostList, db)
            /\ handles' = ClosedHandles(PostList, handles)
            /\ pc' = "raise"
            /\ UNCHANGED hsite
       ELSE /\ hsite' = "loop"
            /\ pc' = "close"
            /\ UNCHANGED <<PostList, db, handles>>
    /\ UNCHANGED <<stack, exc, r, inklist, comment, output, retries, reply,
                   replies, calls, sleeps, work, lost>>
    /\ UNCHANGED matchvars

\* line 213: self.PostList.close(); AttributeError when start() never got
\* to shelve.open
handle_close ==
    /\ pc = "close"
    /\ IF PostList.state = "unset"
       THEN /\ exc' = "AttributeError"
            /\ pc' = PropagateTo(hsite)
            /\ hsite' = "none"
            /\ UNCHANGED <<PostList, db, handles>>
       ELSE /\ PostList' = Closed(PostList)
            /\ db' = ClosedDb(PostList, db)
            /\ handles' = ClosedHandles(PostList, handles)
            /\ pc' = "wait"
            /\ UNCHANGED <<exc, hsite>>
    /\ UNCHANGED <<stack, r, inklist, comment, output, retries, reply, replies,
                   calls, sleeps, work, lost>>
    /\ UNCHANGED matchvars

\* a handler that calls the rest of start() without logging in again
handle_restart_noauth ==
    /\ pc = "wait"
    /\ Len(stack) < MaxDepth
    /\ stack' = Append(stack, hsite)
    /\ hsite' = "none"
    /\ exc' = "none"
    /\ pc' = "download"
    /\ comment' = "none"
    /\ output' = << >>
    /\ retries' = 0
    /\ reply' = None
    /\ calls' = 0
    /\ sleeps' = 0
    /\ work' = "none"
    /\ UNCHANGED <<r, inklist, PostList, handles, db, replies, lost>>
    /\ UNCHANGED matchvars

\* a handler that starts again in the same invocation, suspending nothing
handle_restart_flat ==
    /\ pc = "wait"
    /\ Len(stack) < MaxDepth
    /\ hsite' = "none"
    /\ exc' = "none"
    /\ pc' = "login"
    /\ comment' = "none"
    /\ output' = << >>
    /\ retries' = 0
    /\ reply' = None
    /\ calls' = 0
    /\ sleeps' = 0
    /\ work' = "none"
    /\ UNCHANGED <<stack, r, inklist, PostList, handles, db, replies, lost>>
    /\ UNCHANGED matchvars

\* lines 214-215: time.sleep(self.wait_time), then self.start() is called
\* from inside the handler: the calling start() stays suspended below it
handle_restart ==
    /\ pc = "wait"
    /\ Len(stack) < MaxDepth
    /\ stack' = Append(stack, hsite)
    /\ hsite' = "none"
    /\ exc' = "none"
    /\ pc' = "login"
    /\ comment' = "none"
    /\ output' = << >>
    /\ retries' = 0
    /\ reply' = None
    /\ calls' = 0
    /\ sleeps' = 0
    /\ work' = "none"
    /\ UNCHANGED <<r, inklist, PostList, handles, db, replies, lost>>
    /\ UNCHANGED matchvars

\* an exception leaves the running start(): it ends the process when no
\* start() is suspended, else it continues in the caller, at the place that
\* called ___handle_exception
unwind ==
    /\ pc = "raise"
    /\ IF stack = << >>
       THEN /\ pc' = "exit"
            /\ UNCHANGED stack
       ELSE /\ pc' = PropagateTo(stack[Len(stack)])
            /\ stack' = SubSeq(stack, 1, Len(stack) - 1)
    /\ UNCHANGED <<hsite, exc, r, inklist, PostList, handles, db, comment,
                   output, retries, reply, replies, calls, sleeps, work, lost>>
    /\ UNCHANGED matchvars

\* KeyboardInterrupt (or SystemExit) raised while the bot is blocked: in
\* start() before the loop nothing catches it, in the loop it reaches the
\* handlers of __inkbot_loop, in the restart wait it leaves
\* ___handle_exception
interrupt ==
    /\ pc \in {"login", "download", "open", "stream", "comment_action",
               "reply", "sleep", "record", "wait"}
    /\ exc' = "KeyboardInterrupt"
    /\ pc' = IF pc \in {"login", "download", "open"} THEN "raise"
             ELSE IF pc = "wait" THEN PropagateTo(hsite)
             ELSE "except"
    /\ hsite' = IF pc = "wait" THEN "none" ELSE hsite
    /\ lost' = IF pc = "record" THEN lost \cup {comment} ELSE lost
    /\ UNCHANGED <<stack, r, inklist, PostList, handles, db, comment, output,
                   retries, reply, replies, calls, sleeps, work>>
    /\ UNCHANGED matchvars

\* every step of the bot but a failing shelf write
BotSteps ==
    \/ login
    \/ login_fail
    \/ download_airtable
    \/ download_fail
    \/ shelve_open
    \/ stream_next
    \/ stream_fail
    \/ comment_action
    \/ reply_ok
    \/ reply_APIException
    \/ retry_sleep
    \/ reply_Exception
    \/ record
    \/ loop_except
    \/ handle_close
    \/ handle_restart
    \/ unwind
    \/ interrupt

Next ==
    \/ BotSteps
    \/ record_fail

\* the bot with every failure the code can meet
Spec == Init /\ [][Next]_vars

\* the bot whose failures are those of the feed, of login and rule loading,
\* of comment.reply (transient or not) and interrupts: the shelf never fails
SpecPublish == Init /\ [][BotSteps]_vars

\* ------------------------------------------------------------------------
\* find_best_match on its own, over every table of at most MaxInks inks
\* ------------------------------------------------------------------------

MaxInks == 3

\* tokens as re.findall returns them
MatchTokens ==
    { <<"[", "[", "I", "n", "k", "B", "l", "u", "e", "]", "]">>,
      <<"[", "[", "i", "n", "k", "]", "]">> }

\* patterns that match 4, 5, 5, 6, 6 and 7 characters of the first token,
\* and one that matches neither token
MatchPatterns ==
    { <<"i", "n", "k", "b">>,
      <<"i", "n", "k", "b", "l">>,
      <<"n", "k", "b", "l", "u">>,
      <<"i", "n", "k", "b", "l", "u">>,
      <<"n", "k", "b", "l", "u", "e">>,
      <<"i", "n", "k", "b", "l", "u", "e">>,
      <<"r", "e", "d">> }

\* a table whose i-th ink has the i-th pattern
TableOf(patterns) ==
    [i \in 1..Len(patterns) |->
        Ink(RecId(i), <<"N">>, patterns[i], <<"u">>, None)]

\* what a row of the table can lack: fields.get returns None for "Ink Name"
\* (line 106) or for "Imgur Address" (line 108)
Defects == {"Ink Name", "Imgur Address"}

Lacking(ink, field) ==
    IF field = "Ink Name" THEN [ink EXCEPT !.fields.InkName = << >>]
    ELSE [ink EXCEPT !.fields.ImgurAddress = << >>]

\* the tables: every ink complete, or one ink lacking one field
MatchInkLists ==
    { [i \in 1..Len(t) |-> IF i = d THEN Lacking(t[i], field) ELSE t[i]] :
        t \in { TableOf(ps) :
                   ps \in UNION { [1..n -> MatchPatterns] : n \in 0..MaxInks } },
        d \in 0..MaxInks,
        field \in Defects }

InitMatch ==
    /\ pc = "match"
    /\ inklist \in MatchInkLists
    /\ token \in MatchTokens
    /\ best_match = None
    /\ stack = << >>
    /\ hsite = "none"
    /\ exc = "none"
    /\ r = FALSE
    /\ PostList = [state |-> "unset", dict |-> EmptyDict]
    /\ handles = 0
    /\ db = EmptyDict
    /\ comment = "none"
    /\ output = << >>
    /\ retries = 0
    /\ reply = None
    /\ replies = {}
    /\ calls = 0
    /\ sleeps = 0
    /\ work = "none"
    /\ lost = {}
    /\ fc_ink_matches = << >>
    /\ fc_comment_body = NoBody

\* best_match = find_best_match(inklist, token)
match ==
    /\ pc = "match"
    /\ best_match' = find_best_match(inklist, token)
    /\ pc' = "matched"
    /\ UNCHANGED <<stack, hsite, exc, r, inklist, PostList, handles, db,
                   comment, output, retries, reply, replies, calls, sleeps,
                   work, lost, token, fc_ink_matches, fc_comment_body>>

NextMatch == match

SpecMatch == InitMatch /\ [][NextMatch]_vars

\* ------------------------------------------------------------------------
\* format_comment on its own, over every list of at most MaxMatches entries
\* ------------------------------------------------------------------------

MaxMatches == 3

\* the inks find_best_match can hand over: complete with an Imgur address,
\* complete with a scanned page, complete with both, without a name,
\* without any address, with an empty Scanned Page list
FormatInks ==
    { Ink(RecId(1), <<"A">>, <<"a">>, <<"u", "1">>, None),
      Ink(RecId(2), <<"B">>, <<"b">>, << >>, Some(<<[url |-> <<"s", "2">>]>>)),
      Ink(RecId(3), <<"C">>, <<"c">>, <<"u", "3">>,
          Some(<<[url |-> <<"s", "3">>]>>)),
      Ink(RecId(4), << >>, <<"d">>, <<"u", "4">>, None),
      Ink(RecId(5), <<"E">>, <<"e">>, << >>, None),
      Ink(RecId(6), <<"F">>, <<"f">>, <<"u", "6">>, Some(<< >>)) }

\* the entries of the list: what find_best_match returns for a token
FormatEntries == {None} \cup { Some(ink) : ink \in FormatInks }

FormatInputs == UNION { [1..n -> FormatEntries] : n \in 0..MaxMatches }

InitFormat ==
    /\ pc = "format"
    /\ fc_ink_matches \in FormatInputs
    /\ fc_comment_body = NoBody
    /\ inklist = << >>
    /\ token = << >>
    /\ best_match = None
    /\ stack = << >>
    /\ hsite = "none"
    /\ exc = "none"
    /\ r = FALSE
    /\ PostList = [state |-> "unset", dict |-> EmptyDict]
    /\ handles = 0
    /\ db = EmptyDict
    /\ comment = "none"
    /\ output = << >>
    /\ retries = 0
    /\ reply = None
    /\ replies = {}
    /\ calls = 0
    /\ sleeps = 0
    /\ work = "none"
    /\ lost = {}

\* line 268: comment_body = format_comment(ink_matches)
format ==
    /\ pc = "format"
    /\ fc_comment_body' = format_comment(fc_ink_matches)
    /\ pc' = "formatted"
    /\ UNCHANGED <<stack, hsite, exc, r, inklist, PostList, handles, db,
                   comment, output, retries, reply, replies, calls, sleeps,
                   work, lost, token, best_match, fc_ink_matches>>

NextFormat == format

SpecFormat == InitFormat /\ [][NextFormat]_vars

\* ------------------------------------------------------------------------
\* Properties of find_best_match (SpecMatch)
\* ------------------------------------------------------------------------

\* the inks of inklist whose pattern is found somewhere in token
Matching == {i \in 1..Len(inklist) : Search(inklist[i].compiled_re[1], token) # None}

\* the length of the substring the i-th ink matches
MatchedLen(i) == Len(Search(inklist[i].compiled_re[1], token)[1])

\* the matching inks of maximal matched length
Longest == {i \in Matching : \A j \in Matching : MatchedLen(j) <= MatchedLen(i)}

FirstOf(S) == CHOOSE i \in S : \A j \in S : i <= j

\* the position in inklist of the ink find_best_match returned
BestIndex == CHOOSE i \in 1..Len(inklist) : inklist[i] = best_match[1]

\* C4: the ink find_best_match returns is, among the inks whose pattern
\* matches in the token, one of maximal matched length, and the first such
\* ink in inklist order when several tie; an ink is returned whenever some
\* matched length exceeds the threshold.
C4_LongestFirstWins ==
    pc = "matched" =>
        /\ best_match # None =>
              /\ Longest # {}
              /\ best_match[1] = inklist[FirstOf(Longest)]
        /\ (\E i \in Matching : MatchedLen(i) > 5) => best_match # None

\* two inks tie at the maximal length, above the threshold, and the first of
\* them was returned although it is not the last candidate
C4_Witness ==
    /\ pc = "matched"
    /\ Cardinality(Longest) >= 2
    /\ best_match # None
    /\ BestIndex = FirstOf(Longest)
    /\ \E j \in Longest : j > BestIndex

C5_WitnessSix ==
    /\ pc = "matched"
    /\ best_match # None
    /\ MatchedLen(BestIndex) = 6

\* ------------------------------------------------------------------------
\* Properties of the bot
\* ------------------------------------------------------------------------

\* C1: with the failures of SpecPublish (feed, login, rule loading,
\* transient and non-transient reply failures, interrupts, any feed order
\* and any re-delivery, restarts included) comment.reply succeeds at most
\* once for every comment id.
C1_AtMostOneReply == \A c \in Comments : posts(c) <= 1

\* two comments were each replied to once, the bot restarted at least once,
\* and a re-delivered comment was skipped on its dedupe record
C1_Witness ==
    /\ stack # << >>
    /\ pc = "stream"
    /\ work = "replied"
    /\ posts(comment) = 1
    /\ \E d \in Comments : d # comment /\ posts(d) = 1

\* the shelf handle shows every record the file holds
ShelfShowsDisk ==
    PostList.state = "open" =>
        \A c \in DOMAIN db : c \in DOMAIN PostList.dict /\ PostList.dict[c] = db[c]

\* C2: when __reply_to completes for comment c the shelf and the file map
\* c to the reply id; a record on disk is kept by every later step (close,
\* restart, reopen) and is what a reopened shelf shows; no reply is ever
\* attempted for a comment that has a record, and __comment_action on such a
\* comment returns at the dedupe check with no posted reply and the store
\* unchanged.
C2_RoundTrip ==
    /\ [](ShelfShowsDisk /\ (pc \in {"reply", "sleep", "record"} => comment \notin DOMAIN db))
    /\ [][/\ (pc = "record" /\ pc' = "stream") =>
                /\ comment \in DOMAIN db'
                /\ db'[comment] = reply[1]
                /\ PostList'.dict = db'
          /\ \A c \in DOMAIN db : c \in DOMAIN db' /\ db'[c] = db[c]
          /\ (pc = "comment_action" /\ comment \in DOMAIN db) =>
                /\ pc' \in {"stream", "except"}
                /\ pc' = "stream" => work' = "replied"
                /\ UNCHANGED <<PostList, db, replies, calls, retries>>]_vars

\* after a restart, a comment whose record holds the id of its reply was
\* delivered again and skipped
C2_Witness ==
    /\ stack # << >>
    /\ pc = "stream"
    /\ work = "replied"
    /\ comment \in DOMAIN db
    /\ PostList.state = "open"
    /\ <<comment, db[comment]>> \in replies

\* C3: a comment whose reply succeeded and whose record then failed (the
\* shelf raised) or was interrupted is not replied to a second time.
C3_NoReplyAfterLostRecord == \A c \in lost : posts(c) <= 1

\* C6: comment.reply is only attempted for a comment with at least one
\* token and a non-empty body; processing a comment with no token, or whose
\* formatted body is empty, posts nothing, leaves the store unchanged and
\* goes back to the stream.
C6_ReplyOnlyWithBody ==
    /\ [](pc \in {"reply", "sleep", "record"} =>
             /\ match_list_of(comment) # << >>
             /\ output # << >>)
    /\ [][/\ replies' # replies =>
                /\ pc = "reply"
                /\ output # << >>
                /\ match_list_of(comment) # << >>
          /\ (/\ pc = "comment_action"
              /\ \/ match_list_of(comment) = << >>
                 \/ format_comment(ink_matches_of(inklist,
                        match_list_of(comment))).reply_body = << >>) =>
                /\ pc' \in {"stream", "except"}
                /\ UNCHANGED <<PostList, db, replies, calls>>]_vars

\* a comment with a token whose best matches gave an empty body was
\* processed: nothing was posted, no record exists
C6_Witness ==
    /\ pc = "stream"
    /\ work = "empty_body"
    /\ match_list_of(comment) # << >>
    /\ comment \notin DOMAIN db
    /\ posts(comment) = 0

\* C7: when every attempt of a publish fails with APIException and the
\* publisher gives up, comment.reply was called exactly 20 times.
C7_GivesUpAfterTwenty ==
    (pc = "except" /\ exc = "UnboundLocalError") => calls = 20

\* C8: a non-transient failure of comment.reply is followed by no retry
\* sleep and no further attempt of that publish: ___handle_exception is
\* entered from __reply_to, closes the shelf, waits and restarts, the
\* suspended __reply_to never resumes, and the comment gets no record from
\* the failed publish.
C8_NonTransientAborts ==
    /\ []((pc \in {"close", "wait"} /\ hsite = "reply") =>
             /\ comment \notin DOMAIN db
             /\ comment \notin DOMAIN PostList.dict)
    /\ [][/\ (pc = "reply" /\ exc' = "Exception") =>
                /\ pc' = "close"
                /\ hsite' = "reply"
                /\ UNCHANGED <<sleeps, retries, PostList, db, replies>>
          /\ (pc = "close" /\ hsite = "reply") =>
                /\ pc' = "wait"
                /\ PostList'.state = "closed"
                /\ handles' = 0
                /\ db' = db
          /\ (pc = "wait" /\ hsite = "reply") =>
                /\ db' = db
                /\ \/ pc' = "login" /\ stack' = Append(stack, "reply")
                   \/ pc' = "except" /\ exc' \in Interrupts
          /\ Len(stack') < Len(stack) => pc' \in {"except", "raise"}]_vars

\* comment.reply failed with a non-transient error after transient ones:
\* the shelf is closed and the bot is in the restart wait
C8_Witness ==
    /\ pc = "wait"
    /\ hsite = "reply"
    /\ exc = "Exception"
    /\ calls > 1
    /\ PostList.state = "closed"

\* C9: in a publish, every failed attempt is followed by one sleep before
\* the next attempt (k failures, k sleeps); the successful attempt is the
\* only reply posted by the publish, and the publish then writes exactly one
\* new record, for the comment, holding the id of that reply.
C9_RetryThenRecord ==
    /\ [](/\ pc = "reply" => sleeps = calls /\ reply = None
          /\ pc = "sleep" => sleeps = calls - 1 /\ reply = None
          /\ pc = "record" =>
                /\ sleeps = calls - 1
                /\ reply # None
                /\ <<comment, reply[1]>> \in replies
                /\ comment \notin DOMAIN PostList.dict)
    /\ [][/\ replies' # replies =>
                /\ pc = "reply" /\ pc' = "record"
                /\ replies' = replies \cup {<<comment, reply'[1]>>}
                /\ \A p \in replies : p[2] # reply'[1]
          /\ pc = "record" =>
                \/ /\ pc' = "stream"
                   /\ DOMAIN PostList'.dict = DOMAIN PostList.dict \cup {comment}
                   /\ PostList'.dict[comment] = reply[1]
                   /\ \A c \in DOMAIN PostList.dict :
                         PostList'.dict[c] = PostList.dict[c]
                   /\ db' = PostList'.dict
                \/ pc' = "except" /\ exc' \in Interrupts]_vars

\* three transient failures, three sleeps, success on the 4th attempt, and
\* the record of the comment holds the id of that reply
C9_Witness ==
    /\ pc = "stream"
    /\ work = "reply_to"
    /\ calls = 4
    /\ sleeps = 3
    /\ comment \in DOMAIN db
    /\ reply = Some(db[comment])
    /\ posts(comment) = 1

\* C10: when a publish ends on exhausted retries, the comment has no
\* record, the failure reaches ___handle_exception, which closes the shelf,
\* waits and restarts, and at the restart the comment still has no record.
C10_ExhaustedRestarts ==
    /\ []((exc = "UnboundLocalError" /\ pc \in {"except", "close", "wait"}) =>
             /\ comment \notin DOMAIN db
             /\ comment \notin DOMAIN PostList.dict
             /\ reply = None)
    /\ [][exc = "UnboundLocalError" =>
             /\ pc = "except" => pc' = "close" /\ hsite' = "loop" /\ db' = db
             /\ pc = "close" =>
                   /\ pc' = "wait"
                   /\ PostList'.state = "closed"
                   /\ handles' = 0
                   /\ db' = db
             /\ pc = "wait" =>
                   /\ db' = db
                   /\ \/ pc' = "login" /\ stack' = Append(stack, "loop")
                      \/ pc' = "raise" /\ exc' \in Interrupts]_vars

\* a publish gave up after transient failures only: the shelf is closed,
\* the bot is in the restart wait, the comment has no record
C10_Witness ==
    /\ pc = "wait"
    /\ hsite = "loop"
    /\ exc = "UnboundLocalError"
    /\ PostList.state = "closed"
    /\ comment \notin DOMAIN db
    /\ sleeps = calls

C12_InterruptEnds ==
    [][ (exc \in Interrupts)
        => /\ exc' = exc
           /\ pc' \in {"except", "raise", "exit"}
           /\ (pc = "except" => pc' = "raise")
           /\ (pc = "raise"
                 => (pc' = "exit" /\ stack = << >>)
                    \/ Len(stack') < Len(stack))
           /\ PostList'.state # "open"
           /\ handles' = 0
           /\ replies' = replies
           /\ r' = r
           /\ inklist' = inklist
           /\ db' = ClosedDb(PostList, db) ]_vars

\* a session started by a restart pulled a comment, was interrupted, and
\* its loop has closed the shelf and re-raised
C12_Witness ==
    /\ exc \in Interrupts
    /\ pc = "raise"
    /\ stack # << >>
    /\ comment # "none"
    /\ PostList.state = "closed"
    /\ handles = 0

\* the interrupt has ended the process after a reply was posted
C12_WitnessExit ==
    /\ exc \in Interrupts
    /\ pc = "exit"
    /\ replies # {}
    /\ PostList.state = "closed"

\* ------------------------------------------------------------------------
\* C13: whenever format_comment returns, what it returns is the
\* concatenation, in input order, of exactly one line "* [name](target)\n"
\* for each entry that is not None and has both a name and a target; None
\* entries and entries without name or target contribute nothing, and the
\* result is empty exactly when no entry contributes a line.
\* ------------------------------------------------------------------------

\* the ink's target: the url of the first scanned page when the ink has
\* scanned pages, else its Imgur address; << >> when it has none
TargetOf(ink) ==
    IF ink.fields.ScannedPage = None THEN ink.fields.ImgurAddress
    ELSE IF ink.fields.ScannedPage[1] = << >> THEN << >>
    ELSE Head(ink.fields.ScannedPage[1]).url

Contributes(entry) ==
    /\ entry # None
    /\ entry[1].fields.InkName # << >>
    /\ TargetOf(entry[1]) # << >>

\* the lines of entries 1..n that contribute, in order
RECURSIVE LinesUpTo(_, _)
LinesUpTo(entries, n) ==
    IF n = 0 THEN << >>
    ELSE LinesUpTo(entries, n - 1)
         \o (IF Contributes(entries[n])
             THEN <<"*", " ", "[">> \o entries[n][1].fields.InkName
                  \o <<"]", "(">> \o TargetOf(entries[n][1])
                  \o <<")", "\n">>
             ELSE << >>)

C13_FormatConcatenates ==
    (pc = "formatted" /\ ~fc_comment_body.raised)
    => /\ fc_comment_body.reply_body
            = LinesUpTo(fc_ink_matches, Len(fc_ink_matches))
       /\ (fc_comment_body.reply_body = << >>
             <=> \A i \in 1..Len(fc_ink_matches) :
                    ~Contributes(fc_ink_matches[i]))

\* a scanned-page ink, None and an Imgur ink give two lines in that order
C13_Witness ==
    /\ pc = "formatted"
    /\ Len(fc_ink_matches) = 3
    /\ fc_ink_matches[1] # None /\ fc_ink_matches[1][1].id = RecId(2)
    /\ fc_ink_matches[2] = None
    /\ fc_ink_matches[3] # None /\ fc_ink_matches[3][1].id = RecId(1)
    /\ ~fc_comment_body.raised
    /\ fc_comment_body.reply_body
         = <<"*", " ", "[", "B", "]", "(", "s", "2", ")", "\n",
             "*", " ", "[", "A", "]", "(", "u", "1", ")", "\n">>

\* a non-empty list none of whose entries contributes gives the empty body
C13_WitnessEmpty ==
    /\ pc = "formatted"
    /\ Len(fc_ink_matches) = 3
    /\ fc_ink_matches[1] = None
    /\ fc_ink_matches[2] # None /\ fc_ink_matches[2][1].id = RecId(4)
    /\ fc_ink_matches[3] # None /\ fc_ink_matches[3][1].id = RecId(5)
    /\ ~fc_comment_body.raised
    /\ fc_comment_body.reply_body = << >>

\* ------------------------------------------------------------------------
\* C14: the ink find_best_match returns always has a name and a target: an
\* ink lacking one of them is never selected, so it never takes the place
\* of a complete ink that matches the same token.
\* ------------------------------------------------------------------------
C14_DefectiveNeverSelected ==
    (pc = "matched" /\ best_match # None)
    => /\ best_match[1].fields.InkName # << >>
       /\ TargetOf(best_match[1]) # << >>

\* ------------------------------------------------------------------------
\* C15: when a matched ink has no target (no Imgur address, or a Scanned
\* Page field holding no page), format_comment does not raise: it skips
\* that ink and returns the lines of the other matched inks.
\* ------------------------------------------------------------------------
C15_UnresolvedTargetSkipped ==
    (/\ pc = "formatted"
     /\ \E i \in 1..Len(fc_ink_matches) :
           /\ fc_ink_matches[i] # None
           /\ TargetOf(fc_ink_matches[i][1]) = << >>)
    => /\ ~fc_comment_body.raised
       /\ fc_comment_body.reply_body
            = LinesUpTo(fc_ink_matches, Len(fc_ink_matches))

\* ------------------------------------------------------------------------
\* C16: a login failure in any start(), the first one included, takes the
\* path of ___handle_exception to its end: the shelf is closed, the handler
\* waits and start() is called again; the failure never leaves the handler
\* as an exception that ends the process.
\* ------------------------------------------------------------------------
C16_LoginFailureRecovered ==
    [][ /\ (pc = "login" /\ exc' = "LoginError")
            => (pc' = "close" /\ hsite' = "login")
        /\ (pc = "close" /\ hsite = "login")
            => (pc' = "wait" /\ PostList'.state = "closed")
        /\ (pc = "wait" /\ hsite = "login")
            => \/ pc' = "login" /\ stack' = Append(stack, "login")
               \/ exc' \in Interrupts ]_vars

\* ------------------------------------------------------------------------
\* C17: a failure of download_airtable or of re.compile in any start(), the
\* first one or one entered by a restart from whichever handler, ends the
\* process with that error: the error leaves every suspended start() in
\* turn, no handler catches it, and no wait or restart follows.
\* ------------------------------------------------------------------------
C17_LoadFailureFatal ==
    [][ (exc = "LoadError")
        => /\ exc' = "LoadError"
           /\ pc' \in {"raise", "exit"}
           /\ (pc = "raise"
                 => (pc' = "exit" /\ stack = << >>)
                    \/ Len(stack') < Len(stack)) ]_vars

\* ------------------------------------------------------------------------
\* C18: no shelf is open while ___handle_exception waits before the
\* restart, and none is open once the process has ended, by an interrupt or
\* by an error nothing caught; at any time at most one shelf is open, and it
\* is the one self.PostList refers to, however many start() are suspended.
\* ------------------------------------------------------------------------
C18_StoreClosed ==
    /\ handles \in {0, 1}
    /\ (handles = 1 <=> PostList.state = "open")
    /\ (pc \in {"wait", "exit"} => handles = 0)

\* a restarted session has failed in its turn and its handler waits
C18_Witness ==
    /\ pc = "wait"
    /\ stack # << >>
    /\ replies # {}
    /\ PostList.state = "closed"

\* the process has ended by an interrupt received in the loop of a
\* restarted session, and by a load error in a restarted start()
C18_WitnessExit ==
    /\ pc = "exit"
    /\ exc \in Interrupts \cup {"LoadError"}
    /\ replies # {}
    /\ PostList.state = "closed"
    /\ handles = 0

\* ------------------------------------------------------------------------
\* C19: every record (c -> id), in the shelf and in the file, is the id
\* that a successful comment.reply on c returned; a record is added only by
\* __reply_to after that reply has returned, for the comment just replied
\* to; a record, once in the shelf or in the file, is never changed and
\* never removed.
\* ------------------------------------------------------------------------
C19_EntriesFromReplies ==
    /\ [](/\ \A c \in DOMAIN PostList.dict : <<c, PostList.dict[c]>> \in replies
          /\ \A c \in DOMAIN db : <<c, db[c]>> \in replies)
    /\ [][ /\ (DOMAIN PostList'.dict # DOMAIN PostList.dict)
                => /\ pc = "record"
                   /\ reply # None
                   /\ <<comment, reply[1]>> \in replies
                   /\ comment \notin DOMAIN PostList.dict
                   /\ PostList'.dict = Put(PostList.dict, comment, reply[1])
            /\ \A c \in DOMAIN PostList.dict :
                   /\ c \in DOMAIN PostList'.dict
                   /\ PostList'.dict[c] = PostList.dict[c]
            /\ DOMAIN db \subseteq DOMAIN db'
            /\ DOMAIN db' \subseteq DOMAIN PostList.dict \cup DOMAIN PostList'.dict
          ]_vars

\* two comments were replied to in different sessions and the reopened shelf
\* holds both records
C19_Witness ==
    /\ stack # << >>
    /\ PostList.state = "open"
    /\ Cardinality(DOMAIN PostList.dict) >= 2
    /\ PostList.dict = db
    /\ \A c \in DOMAIN db : <<c, db[c]>> \in replies

\* ------------------------------------------------------------------------
\* C20: the restart is a call of start() from inside ___handle_exception:
\* each restart suspends one more start(), and a suspended start() is only
\* ever resumed by an exception that leaves the start() above it, in the
\* except clause that called the handler.  A session that has failed never
\* reads the stream, calls comment.reply or writes the shelf again: those
\* steps are taken only by the innermost start(), which reached them
\* through its own login, download and shelve.open.
\* ------------------------------------------------------------------------
C20_OnlyInnermostRuns ==
    [][ /\ (pc = "wait" /\ pc' = "login")
            => stack' = Append(stack, hsite)
        /\ (Len(stack') > Len(stack))
            => (pc = "wait" /\ pc' = "login" /\ Len(stack') = Len(stack) + 1)
        /\ (Len(stack') < Len(stack))
            => /\ pc = "raise"
               /\ exc # "none" /\ exc' = exc
               /\ Len(stack') = Len(stack) - 1
               /\ pc' \in {"except", "raise"}
        /\ (pc \in {"except", "close", "wait", "raise", "exit"})
            => /\ pc' \in {"except", "close", "wait", "raise", "exit", "login"}
               /\ replies' = replies
               /\ DOMAIN PostList'.dict = DOMAIN PostList.dict
               /\ comment' \in {comment, "none"}
        /\ (pc' \in {"stream", "comment_action", "reply", "sleep", "record"})
            => /\ pc \in {"open", "stream", "comment_action", "reply",
                           "sleep", "record"}
               /\ stack' = stack ]_vars

\* a session whose publish failed and the session restarted from it, whose
\* loop failed, are suspended; the third start() is attempting a reply
C20_Witness ==
    /\ stack = <<"reply", "loop">>
    /\ pc = "reply"
    /\ PostList.state = "open"

\* a suspended __reply_to is resumed by the load error of the start() above
C20_WitnessResumed ==
    /\ stack = << >>
    /\ pc = "except"
    /\ exc = "LoadError"

=============================================================================

